---- MODULE Spec2Model ----
(***************************************************************************)
(* Model of the persberichten-tool: the two request pipelines of the       *)
(* repository, the Flask application src/app.py ("flask") and the FastAPI  *)
(* application src/app/main.py with src/app/processing.py and              *)
(* src/app/llm.py ("fastapi").                                             *)
(*                                                                         *)
(* Texts are modelled at line granularity.  A line is a record             *)
(*   [w |-> bag of the cue words that occur in it,                         *)
(*    n |-> its length in characters,                                      *)
(*    p |-> the offsets (1..n) just after a '.', '!' or '?' that is        *)
(*          followed by white space or by the end of the line]             *)
(* and a text is a sequence of pieces [ln, o, n, e]: the n characters of   *)
(* line ln that start at offset o, followed by e appended ellipsis         *)
(* characters.  Consecutive pieces are joined by one line feed; a piece of *)
(* length 0 is a blank line.  Python's slices, strip(),                    *)
(* split() and the regular expressions of the source are computed on this  *)
(* representation; lengths keep the program's real thresholds.             *)
(***************************************************************************)
EXTENDS Bags, FiniteSets, Integers, Naturals, Sequences, TLC

VARIABLES
  endpoint,   \* "process" | "reprocess" (src/app.py) | "fastapi" (src/app/main.py)
  fileType,   \* "txt" | "docx" | "pdf": suffix of the uploaded file
  llmMode,    \* LLM_MODE of src/app.py
  raw,        \* the extracted text of the upload
  pc,         \* position of the handler
  cleaned,    \* normalized text
  signals,    \* sequence of signal codes accumulated by the handler
  ok,         \* the "ok" field of the response: "none" while running, "true", "false"
  draft,      \* [kop, intro, body, source] or NoDraft
  submitted,  \* sequence of the texts sent to the external rewriter
  attempt,    \* what the call of the rewriter came to: "none" before it returns,
              \* "neterror", "unparsable", "emptyfield" or "ok"
  structured, \* the text the fallback structurer was applied to, or NoText
  contact,    \* result of detect_contact_tail, or NoText
  outBody     \* body block of the assembled output: [made, body, block] or NoOutput

vars == <<endpoint, fileType, llmMode, raw, pc, cleaned, signals, ok, draft,
          submitted, attempt, structured, contact, outBody>>

\* None where the source holds a text is the empty text: the source only tests
\* such values for truth.  A draft and an output body that do not exist yet are
\* records of their own.
NoText == <<>>
NoDraft == [source |-> "none"]
NoOutput == [made |-> FALSE]
Raise == [raised |-> TRUE]

-----------------------------------------------------------------------------
(* Lines, pieces and texts *)

Max(a, b) == IF a >= b THEN a ELSE b
Min(a, b) == IF a <= b THEN a ELSE b

Line(words, n, p) == [w |-> words, n |-> n, p |-> p]
BlankLine == Line(EmptyBag, 0, {})

\* A whole line as a piece of text.
Whole(l) == [ln |-> l, o |-> 0, n |-> l.n, e |-> 0]
Blank == Whole(BlankLine)
PieceLen(pce) == pce.n + pce.e
IsBlank(pce) == PieceLen(pce) = 0
IsWhole(pce) == pce.o = 0 /\ pce.n = pce.ln.n /\ pce.e = 0

\* Words of a piece: the positions of words inside a line are not modelled,
\* the regular expressions are only applied to texts made of whole lines.
WordsOf(pce) == IF IsWhole(pce) THEN pce.ln.w ELSE EmptyBag

\* Sentence-break offsets of a piece, relative to the start of the piece.
BreaksOf(pce) == {x - pce.o : x \in {y \in pce.ln.p : y > pce.o /\ y <= pce.o + pce.n}}

RECURSIVE SumLen(_)
SumLen(t) == IF t = <<>> THEN 0 ELSE PieceLen(Head(t)) + SumLen(Tail(t))

\* len(text): the characters of the lines plus the line feeds that join them.
TextLen(t) == IF t = <<>> THEN 0 ELSE SumLen(t) + Len(t) - 1

RECURSIVE LStrip(_)
LStrip(t) == IF t = <<>> THEN <<>>
             ELSE IF IsBlank(Head(t)) THEN LStrip(Tail(t)) ELSE t

RECURSIVE RStrip(_)
RStrip(t) == IF t = <<>> THEN <<>>
             ELSE IF IsBlank(t[Len(t)]) THEN RStrip(SubSeq(t, 1, Len(t) - 1)) ELSE t

\* str.strip() of a text whose lines carry no leading or trailing blanks.
Strip(t) == RStrip(LStrip(t))

\* text[:k]
RECURSIVE TakeChars(_, _)
TakeChars(t, k) ==
  IF t = <<>> \/ k <= 0 THEN <<>>
  ELSE LET h == Head(t) IN
       IF h.n >= k THEN <<[ln |-> h.ln, o |-> h.o, n |-> k, e |-> 0]>>
       ELSE <<h>> \o (IF k - h.n - 1 <= 0 /\ Tail(t) # <<>> THEN <<Blank>>
                      ELSE TakeChars(Tail(t), k - h.n - 1))

\* text[k:]
RECURSIVE DropChars(_, _)
DropChars(t, k) ==
  IF t = <<>> THEN <<>>
  ELSE IF k <= 0 THEN t
  ELSE LET h == Head(t) IN
       IF h.n >= k THEN <<[ln |-> h.ln, o |-> h.o + k, n |-> h.n - k, e |-> h.e]>> \o Tail(t)
       ELSE IF Tail(t) = <<>> THEN <<>>
       ELSE IF k - h.n - 1 = 0 THEN Tail(t)
       ELSE DropChars(Tail(t), k - h.n - 1)

\* a.startswith(b) for a one-piece text b
StartsWith(a, b) ==
  \/ b = <<>>
  \/ /\ a # <<>> /\ Len(b) = 1
     /\ a[1].ln = b[1].ln /\ a[1].o = b[1].o /\ b[1].n <= a[1].n

\* "\n\n".join(paragraphs)
RECURSIVE JoinParas(_)
JoinParas(ps) ==
  IF ps = <<>> THEN <<>>
  ELSE IF Len(ps) = 1 THEN ps[1]
  ELSE ps[1] \o <<Blank>> \o JoinParas(Tail(ps))

\* The number of occurrences in a text of the words of a set.
RECURSIVE CountAny(_, _)
CountAny(t, words) ==
  IF t = <<>> THEN 0
  ELSE LET b == WordsOf(Head(t))
           hit == {x \in BagToSet(b) : x \in words}
           RECURSIVE Sum(_)
           Sum(S) == IF S = {} THEN 0
                     ELSE LET x == CHOOSE y \in S : TRUE IN CopiesIn(x, b) + Sum(S \ {x})
       IN Sum(hit) + CountAny(Tail(t), words)

-----------------------------------------------------------------------------
(* Matching of the source's regular expressions against cue words *)

\* str.lower() on the cue words that carry capitals.
Lower(word) ==
  CASE word = "Contact" -> "contact"
    [] word = "Tel." -> "tel."
    [] word = "EINDE PERSBERICHT" -> "einde persbericht"
    [] word = "Persbericht" -> "persbericht"
    [] word = "Jan Jansen" -> "jan jansen"
    [] word = "Maastricht" -> "maastricht"
    [] word = "Heerlen, 6 februari 2026 -" -> "heerlen, 6 februari 2026 -"
    [] word = "Heerlen" -> "heerlen"
    [] word = "EINDE" -> "einde"
    [] word = "PERSBERICHT" -> "persbericht"
    [] OTHER -> word

\* The words and phrases that stand between word boundaries inside a cue.
Parts(word) ==
  CASE word = "Heerlen, 6 februari 2026 -" -> {word, "Heerlen", "6 februari 2026"}
    [] word = "EINDE PERSBERICHT" -> {word, "EINDE", "PERSBERICHT"}
    [] word = "info@example.com" -> {word, "@"}
    [] word = "met als doel" -> {word, "met"}
    [] OTHER -> {word}

\* re.search(alternation, text): case sensitive, and on the lowered text.
MatchCS(t, alts) ==
  \E i \in 1..Len(t) : \E word \in BagToSet(WordsOf(t[i])) : Parts(word) \cap alts # {}
MatchCI(t, alts) ==
  \E i \in 1..Len(t) : \E word \in BagToSet(WordsOf(t[i])) :
     {Lower(x) : x \in Parts(word)} \cap alts # {}

\* Cue words that match the patterns of the source that are not plain
\* alternations.
CapitalizedPair == {"Jan Jansen"}                   \* [A-Z][a-z]+ [A-Z][a-z]+
DayMonthYear == {"6 februari 2026", "12 maart 2026"} \* \d{1,2}\s+[A-Za-z]+\s+\d{4}
DatelineStart == {"Heerlen, 6 februari 2026 -"}     \* Place, d month yyyy and a dash
EmailAddress == {"info@example.com"}                \* @[A-Za-z0-9._%+-]+\.[A-Za-z]{2,}
SeparatorMarks == {"---", "***", "einde persbericht"}

-----------------------------------------------------------------------------
(* src/app.py: the detectors *)

MIN_CHARS == 950
PDF_MIN_CHARS == 800
SECOND_MIN_CHARS == 900
SCORE_WINDOW == 500
HEADLINE_SHAPE == 160
KOP_MAX == 150
KOP_MIN == 100
INTRO_MAX == 650
TAIL_LINES == 60

\* normalize_ws: line endings are already line boundaries here; runs of three
\* or more line feeds (two or more blank lines) become one blank line, and the
\* text is stripped.
RECURSIVE CollapseBlank(_)
CollapseBlank(t) ==
  IF Len(t) < 2 THEN t
  ELSE IF IsBlank(t[1]) /\ IsBlank(t[2]) THEN CollapseBlank(Tail(t))
  ELSE <<Head(t)>> \o CollapseBlank(Tail(t))

normalize_ws(t) == Strip(CollapseBlank(t))

WhoNouns == {"organisatie", "bedrijf", "stichting", "vereniging", "gemeente", "politie",
             "universiteit"}
WhatVerbs == {"opent", "start", "lanceert", "introduceert", "organiseert", "houdt",
              "presenteert", "maakt bekend", "meldt", "sluit", "bouwt"}
Places == {"Maastricht", "Heerlen", "Sittard", "Roermond", "Venlo", "Weert", "Kerkrade",
           "Valkenburg", "Geleen", "Landgraaf", "Echt", "Susteren"}
Locatives == {"in", "op", "bij"}
Weekdays == {"maandag", "dinsdag", "woensdag", "donderdag", "vrijdag", "zaterdag", "zondag"}
WhyWords == {"omdat", "zodat", "vanwege", "met als doel"}
HowWords == {"door", "via", "met behulp van", "op deze manier"}
StrongWords == {"uniek", "beste", "veiligst", "revolutionair", "nummer 1"}
RelativeWords == {"gisteren", "vandaag", "morgen", "vanavond", "vanochtend", "gisteravond"}
ContactWords == {"tel", "tel.", "telefoon", "contact", "voor meer informatie",
                 "noot voor de redactie"}
SecondContactWords == {"contact", "voor meer informatie", "noot voor de redactie",
                       "woordvoerder"}

Dims == <<"Wie", "Wat", "Waar", "Wanneer", "Waarom", "Hoe">>
GateDims == {"Wie", "Wat", "Waar", "Wanneer", "Waarom"}

find_5w(t) ==
  [Wie |-> MatchCI(t, WhoNouns) \/ MatchCS(t, CapitalizedPair),
   Wat |-> MatchCI(t, WhatVerbs),
   Waar |-> MatchCS(t, Places) \/ MatchCI(t, Locatives),
   Wanneer |-> MatchCS(t, DayMonthYear) \/ MatchCI(t, Weekdays),
   Waarom |-> MatchCI(t, WhyWords),
   Hoe |-> MatchCI(t, HowWords)]

strong_claims(t) == MatchCI(t, StrongWords)
relative_time(t) == MatchCI(t, RelativeWords)

\* lines[-60:]
LastLines(t, k) == IF Len(t) <= k THEN t ELSE SubSeq(t, Len(t) - k + 1, Len(t))

detect_contact_tail(t) ==
  LET tail == LastLines(t, TAIL_LINES) IN
  IF MatchCS(tail, EmailAddress) \/ MatchCI(tail, ContactWords) THEN Strip(tail) ELSE NoText

-----------------------------------------------------------------------------
(* src/app.py: multiple press releases *)

\* A line that holds nothing but a separator mark.
IsSeparatorLine(pce) ==
  /\ IsWhole(pce)
  /\ \E m \in BagToSet(pce.ln.w) :
        /\ BagToSet(pce.ln.w) = {m} /\ CopiesIn(m, pce.ln.w) = 1
        /\ Lower(m) \in SeparatorMarks /\ pce.n = Len(m)

\* re.split(r"\n\s*(?:-{3,}|\*{3,}|EINDE PERSBERICHT)\s*\n", text): a separator line
\* is matched when a line feed precedes and follows it; a match swallows the
\* blank lines around it together with the line feed that ends them, so the line
\* feed before the next non-blank line is gone.  nl is "start" before the first
\* line, "free" when the line feed before line i can open a match, "used" when
\* the previous match has consumed it.
RECURSIVE SplitFrom(_, _, _, _)
SplitFrom(t, i, cur, nl) ==
  IF i > Len(t) THEN <<cur>>
  ELSE IF IsSeparatorLine(t[i]) /\ nl = "free" /\ i < Len(t)
       THEN <<cur>> \o SplitFrom(t, i + 1, <<>>, "used")
  ELSE IF IsBlank(t[i])
       THEN SplitFrom(t, i + 1, cur \o <<t[i]>>, IF nl = "used" THEN "used" ELSE "free")
  ELSE SplitFrom(t, i + 1, cur \o <<t[i]>>, "free")

NonEmpty(t) == t # <<>>

RECURSIVE StripAll(_)
StripAll(ts) == IF ts = <<>> THEN <<>> ELSE <<Strip(Head(ts))>> \o StripAll(Tail(ts))

split_sections(t) == SelectSeq(StripAll(SplitFrom(t, 1, <<>>, "start")), NonEmpty)

\* len([s for s in re.split(r"[.!?]\s+", start) if s.strip()]) >= 2: some sentence
\* end inside start is followed by white space and then by more text.
TwoSegments(start) ==
  \E i \in 1..Len(start) : \E b \in BreaksOf(start[i]) :
     \/ b + 2 <= start[i].n
     \/ /\ b = start[i].n
        /\ start[i].o + start[i].n = start[i].ln.n
        /\ \E j \in (i + 1)..Len(start) : start[j].n >= 1

FirstNonBlank(t) == LStrip(t)[1]

score_second(section) ==
  (IF MatchCS(section, DatelineStart) THEN 2 ELSE 0)
  + (IF TwoSegments(TakeChars(section, SCORE_WINDOW)) THEN 2 ELSE 0)
  + (IF LStrip(section) # <<>> /\ FirstNonBlank(section).n <= HEADLINE_SHAPE THEN 1 ELSE 0)
  + (IF MatchCI(section, SecondContactWords) THEN 1 ELSE 0)

\* The pair (e007, w015) as a set of codes.
multiple_press_release_LastSection(t) ==
  LET sections == split_sections(t) IN
  IF Len(sections) <= 1 THEN {}
  ELSE LET second == sections[Len(sections)]
           score == score_second(second)
       IN IF score >= 4 /\ TextLen(second) >= SECOND_MIN_CHARS THEN {"E007"}
          ELSE IF score \in {2, 3} THEN {"W015"}
          ELSE {}

multiple_press_release_WarnFromTwo(t) ==
  LET sections == split_sections(t) IN
  IF Len(sections) <= 1 THEN {}
  ELSE LET second == sections[2]
           score == score_second(second)
       IN IF score >= 4 /\ TextLen(second) >= SECOND_MIN_CHARS THEN {"E007"}
          ELSE IF score >= 2 THEN {"W015"}
          ELSE {}

multiple_press_release(t) ==
  LET sections == split_sections(t) IN
  IF Len(sections) <= 1 THEN {}
  ELSE LET second == sections[2]
           score == score_second(second)
       IN IF score >= 4 /\ TextLen(second) >= SECOND_MIN_CHARS THEN {"E007"}
          ELSE IF score \in {2, 3} THEN {"W015"}
          ELSE {}

-----------------------------------------------------------------------------
(* src/app.py: neutralize and structure *)

Replacements == <<
  <<"wereldleider", "grote speler">>,
  <<"marktleider", "grote speler">>,
  <<"innovatief", "nieuw">>,
  <<"revolutionair", "nieuw">>,
  <<"uniek", "bijzonder">> >>

\* re.sub of one replacement on a line: every occurrence is replaced and the
\* length changes with it.
ReplaceIn(l, rep) ==
  LET c == CopiesIn(rep[1], l.w)
      n2 == l.n + c * (Len(rep[2]) - Len(rep[1]))
  IN IF c = 0 THEN l
     ELSE [w |-> (l.w (-) (rep[1] :> c)) (+) (rep[2] :> c),
           n |-> n2,
           p |-> {x \in l.p : x <= n2}]

RECURSIVE ApplyReps(_, _)
ApplyReps(l, reps) ==
  IF reps = <<>> THEN l ELSE ApplyReps(ReplaceIn(l, Head(reps)), Tail(reps))

RECURSIVE neutralize(_)
neutralize(t) ==
  IF t = <<>> THEN <<>>
  ELSE (IF IsWhole(Head(t)) THEN <<Whole(ApplyReps(Head(t).ln, Replacements))>>
        ELSE <<Head(t)>>) \o neutralize(Tail(t))

\* re.split(r"\n\s*\n", text): the paragraphs between blank lines.
RECURSIVE ParasFrom(_, _)
ParasFrom(t, cur) ==
  IF t = <<>> THEN <<cur>>
  ELSE IF IsBlank(Head(t)) THEN <<cur>> \o ParasFrom(Tail(t), <<>>)
  ELSE ParasFrom(Tail(t), cur \o <<Head(t)>>)

Paragraphs(t) == SelectSeq(StripAll(ParasFrom(t, <<>>)), NonEmpty)

NotBlankPiece(pce) == ~IsBlank(pce)
NonBlankLines(t) == SelectSeq(t, NotBlankPiece)

Fields(kop, intro, body) == [kop |-> kop, intro |-> intro, body |-> body]

structure_HeadlineEquals(t) ==
  LET lines == NonBlankLines(t) IN
  IF lines = <<>> THEN Fields(<<>>, <<>>, <<>>)
  ELSE
    LET kop == TakeChars(<<lines[1]>>, KOP_MAX)
        paras == Paragraphs(t)
    IN IF Len(paras) = 1
       THEN LET intro == Strip(TakeChars(paras[1], INTRO_MAX))
            IN Fields(kop, intro, Strip(DropChars(paras[1], TextLen(intro))))
       ELSE LET sw == paras[1] = kop
            IN Fields(kop,
                      Strip(TakeChars(IF sw THEN paras[2] ELSE paras[1], INTRO_MAX)),
                      Strip(JoinParas(IF sw /\ Len(paras) > 2
                                      THEN SubSeq(paras, 3, Len(paras))
                                      ELSE Tail(paras))))

structure(t) ==
  LET lines == NonBlankLines(t) IN
  IF lines = <<>> THEN Fields(<<>>, <<>>, <<>>)
  ELSE
    LET kop == TakeChars(<<lines[1]>>, KOP_MAX)
        paras == Paragraphs(t)
    IN IF Len(paras) = 1
       THEN LET intro == Strip(TakeChars(paras[1], INTRO_MAX))
            IN Fields(kop, intro, Strip(DropChars(paras[1], TextLen(intro))))
       ELSE LET sw == StartsWith(paras[1], kop)
            IN Fields(kop,
                      Strip(TakeChars(IF sw THEN paras[2] ELSE paras[1], INTRO_MAX)),
                      Strip(JoinParas(IF sw /\ Len(paras) > 2
                                      THEN SubSeq(paras, 3, Len(paras))
                                      ELSE Tail(paras))))

-----------------------------------------------------------------------------
(* src/app/processing.py *)

EXTRACT_MIN == 800
TOTAL_MIN == 950
KOP_CUT == 147
KOP_SHORT == 20
INTRO_HI == 220
INTRO_LO == 200
INTRO_CUT == 217
XS_LIMIT == 2500
XS_LO == 950
XS_HI == 1150
S_LO == 1750
S_HI == 1950

\* normalize_whitespace: blank-line runs collapse and the text is stripped; the
\* collapse of runs of spaces and tabs inside a line does not change the line
\* structure and is left to the lengths of the lines.
normalize_whitespace(t) == Strip(CollapseBlank(t))

count_chars_including_spaces(t) == TextLen(t)

\* Cue words in which the substring "persbericht" occurs, and the cue words the
\* dd-month-yyyy pattern with Dutch month names matches.
PersberichtWords == {"persbericht", "Persbericht", "EINDE PERSBERICHT", "persberichten"}
DutchDates == {"6 februari 2026", "12 maart 2026", "Heerlen, 6 februari 2026 -"}

detect_multiple_press_releases(t) ==
  IF CountAny(t, PersberichtWords) >= 2 THEN TRUE
  ELSE IF CountAny(t, DutchDates) >= 2 THEN TRUE
  ELSE FALSE

WieWords == {"wie", "door", "namens", "stichting", "bv", "b.v.", "gemeente", "provincie",
             "ministerie", "vereniging", "bedrijf"}
WatWords == {"wat", "lanceert", "introduceert", "opent", "start", "organiseert",
             "maakt bekend", "kondigt aan"}
WaarWords == {"waar", "in", "te", "bij"}
WanneerWords == {"vandaag", "morgen", "gisteren", "maandag", "dinsdag", "woensdag",
                 "donderdag", "vrijdag", "zaterdag", "zondag"}
\* \d{1,2}\s+(jan|feb|mrt|apr|mei|jun|jul|aug|sep|okt|nov|dec)\w* and
\* \d{1,2}[/-]\d{1,2}[/-]\d{2,4}: "12 maart 2026" matches neither.
DayMonth == {"6 februari 2026", "6-2-2026"}
WaaromWords == {"omdat", "zodat", "waardoor", "met als doel", "doel is", "vanwege", "wegens"}
HoeWords == {"door", "via", "met", "door middel van", "op basis van", "onder meer", "zoals"}
ClaimWords == {"altijd", "nooit", "garandeert", "bewijs", "bewijst", "de beste", "uniek",
               "baanbrekend"}
\* \b(telefoon|tel\.|e-?mail|@|www\.|http)\b: "tel." and "www." only match when a
\* word character follows the dot.
LinkWords == {"telefoon", "email", "e-mail", "@", "http"}

\* \b([a-z...\-]{3,})\b: a non-blank line that is not a separator holds a word of
\* three letters.
HasLongWord(t) == \E i \in 1..Len(t) : t[i].n >= 3 /\ ~IsSeparatorLine(t[i])

five_w_check(t) ==
  [wie |-> MatchCI(t, WieWords),
   wat |-> MatchCI(t, WatWords),
   waar |-> MatchCI(t, WaarWords) /\ HasLongWord(t),
   wanneer |-> MatchCI(t, WanneerWords) \/ MatchCI(t, DayMonth),
   waarom |-> MatchCI(t, WaaromWords),
   hoe |-> MatchCI(t, HoeWords)]

ValidationResult(isOk, code, warnings) ==
  [ok |-> isOk, error_code |-> code, warnings |-> warnings]

validate_input(text) ==
  LET norm == normalize_whitespace(text)
      ws == five_w_check(norm)
      missing == {k \in DOMAIN ws : ~ws[k]}
  IN IF TextLen(norm) < EXTRACT_MIN THEN ValidationResult(FALSE, "E003", <<>>)
     ELSE IF detect_multiple_press_releases(norm) THEN ValidationResult(FALSE, "E007", <<>>)
     ELSE IF count_chars_including_spaces(norm) < TOTAL_MIN
          THEN ValidationResult(FALSE, "E004", <<>>)
     ELSE IF Cardinality(missing) >= 2 THEN ValidationResult(FALSE, "E006", <<>>)
     ELSE ValidationResult(TRUE, "none",
            (IF ~ws.waarom THEN <<"W001">> ELSE <<>>)
            \o (IF ~ws.hoe THEN <<"W002">> ELSE <<>>)
            \o (IF MatchCI(norm, ClaimWords) THEN <<"W004">> ELSE <<>>)
            \o (IF MatchCI(norm, LinkWords) THEN <<"W009">> ELSE <<>>))

\* Offsets of the sentence ends of a line that white space follows inside the line.
InternalBreaks(pce) == {b \in BreaksOf(pce) : b < pce.n}

SetMin(S) == CHOOSE x \in S : \A y \in S : x <= y

\* t + "..." (one ellipsis character)
Ellipsis(t) ==
  IF t = <<>> THEN <<[ln |-> BlankLine, o |-> 0, n |-> 0, e |-> 1]>>
  ELSE [t EXCEPT ![Len(t)].e = 1]

RECURSIVE Interleave(_)
Interleave(ls) ==
  IF Len(ls) <= 1 THEN ls ELSE <<Head(ls), Blank>> \o Interleave(Tail(ls))

naive_rewrite(t) ==
  LET paras == NonBlankLines(t)
      first == IF paras = <<>> THEN <<>> ELSE <<paras[1]>>
      sent1 == IF first = <<>> \/ InternalBreaks(paras[1]) = {} THEN first
               ELSE TakeChars(first, SetMin(InternalBreaks(paras[1])))
      kop1 == IF TextLen(sent1) > KOP_MAX THEN Ellipsis(RStrip(TakeChars(sent1, KOP_CUT)))
              ELSE sent1
      kop == IF TextLen(kop1) < KOP_SHORT /\ TextLen(first) > KOP_SHORT
             THEN (IF TextLen(first) > KOP_MAX
                   THEN Ellipsis(RStrip(TakeChars(first, KOP_MAX))) ELSE first)
             ELSE kop1
      blob == SubSeq(paras, 1, Min(2, Len(paras)))
      breaks == IF Len(blob) = 0 THEN {}
                ELSE IF Len(blob) = 1 THEN InternalBreaks(blob[1])
                ELSE BreaksOf(blob[1])
                     \cup {blob[1].n + 1 + b : b \in InternalBreaks(blob[2])}
      two == IF Cardinality(breaks) >= 2
             THEN TakeChars(blob, SetMin(breaks \ {SetMin(breaks)}))
             ELSE blob
      intro == IF TextLen(two) > INTRO_HI THEN Ellipsis(RStrip(TakeChars(two, INTRO_CUT)))
               ELSE two
      joined == IF Len(paras) > 1 THEN Strip(Interleave(Tail(paras))) ELSE <<>>
  IN Fields(kop, intro, IF joined = <<>> THEN t ELSE joined)

\* int(hi * 1.10)
SoftCeiling(hi) == (hi * 110) \div 100

enforce_length_warnings(kop, intro, body, source_len) ==
  LET lo == IF source_len < XS_LIMIT THEN XS_LO ELSE S_LO
      hi == IF source_len < XS_LIMIT THEN XS_HI ELSE S_HI
      total == TextLen(intro) + TextLen(body)
  IN (IF ~(KOP_MIN <= TextLen(kop) /\ TextLen(kop) <= KOP_MAX) THEN <<"W005">> ELSE <<>>)
     \o (IF ~(INTRO_LO <= TextLen(intro) /\ TextLen(intro) <= INTRO_HI)
         THEN <<"W006">> ELSE <<>>)
     \o (IF total < lo THEN <<"W007">>
         ELSE IF total > SoftCeiling(hi) THEN <<"W007">> ELSE <<>>)

-----------------------------------------------------------------------------
(* The external rewriter: src/app.py llm_rewrite and parse_field,           *)
(* src/app/llm.py rewrite_with_llm and parse_llm_json                       *)

Labels == <<"KOP:", "INTRO:", "BODY:", "SIGNALEN:", "BRON:">>

\* A text received from the rewriter: n characters on one line.
ExtText(n) == IF n = 0 THEN <<>> ELSE <<Whole(Line(EmptyBag, n, {}))>>
LabelText(lab) == <<Whole(Line(SetToBag({lab}), Len(lab), {}))>>

\* The content returned by llm_rewrite is a sequence of segments [lab, txt]: the
\* label as it stands in the content and the text up to the next label.
\* parse_field: s.find(label); the rest is cut at the first label of Labels, in
\* the order of that list, that occurs in it; the result is stripped.
FirstIndex(segs, from, lab) ==
  IF \E i \in from..Len(segs) : segs[i].lab = lab
  THEN SetMin({i \in from..Len(segs) : segs[i].lab = lab}) ELSE 0

RECURSIVE CutLabel(_, _, _, _)
CutLabel(segs, i, label, k) ==
  IF k > Len(Labels) THEN Len(segs) + 1
  ELSE IF Labels[k] # label /\ FirstIndex(segs, i + 1, Labels[k]) # 0
       THEN FirstIndex(segs, i + 1, Labels[k])
  ELSE CutLabel(segs, i, label, k + 1)

RECURSIVE SegText(_, _, _)
SegText(segs, from, to) ==
  IF from > to THEN <<>>
  ELSE LabelText(segs[from].lab) \o segs[from].txt \o SegText(segs, from + 1, to)

parse_field(segs, label) ==
  LET i == FirstIndex(segs, 1, label) IN
  IF i = 0 THEN <<>>
  ELSE Strip(segs[i].txt \o SegText(segs, i + 1, CutLabel(segs, i, label, 1) - 1))

\* parse_llm_json: a reply that is no JSON, or lacks one of the keys, raises;
\* otherwise the three values are stripped.
Keys == {"kop", "intro", "body"}
parse_llm_json(reply) ==
  IF reply.kind # "json" \/ ~(Keys \subseteq DOMAIN reply.data) THEN Raise
  ELSE Fields(Strip(reply.data.kop), Strip(reply.data.intro), Strip(reply.data.body))
       @@ [raised |-> FALSE]

\* rewrite_with_llm: call_openai_chat raises on a transport error.
rewrite_with_llm(reply) ==
  IF reply.kind = "neterror" THEN Raise ELSE parse_llm_json(reply)

-----------------------------------------------------------------------------
(* Inputs *)

MaxParas == 2

LeadCues == {"gemeente", "opent", "in", "maandag", "omdat", "via", "door"}
LeadLens == {90, 160}

BodyLine == Line(EmptyBag, 900, {80, 900})
ShortLine == Line(EmptyBag, 700, {})
PromoLine == Line("revolutionair" :> 50, 900, {})
ContactLine == Line(SetToBag({"Contact", "info@example.com"}), 40, {})
DatelineLine == Line(SetToBag({"Heerlen, 6 februari 2026 -"}), 120, {60})
SeparatorLine == Line(SetToBag({"---"}), 3, {})
PersLine == Line(SetToBag({"persbericht", "vandaag"}), 60, {})
ClaimLine == Line(SetToBag({"uniek"}), 900, {80, 900})

TailLines == {BlankLine, BodyLine, ShortLine, PromoLine, ContactLine, DatelineLine,
              SeparatorLine, PersLine}

RECURSIVE BodyParas(_)
BodyParas(k) == IF k = 0 THEN <<>> ELSE <<BlankLine, BodyLine>> \o BodyParas(k - 1)

Prefixes == {<<>>} \cup {<<a>> : a \in TailLines} \cup {<<a, b>> : a, b \in TailLines}
Layouts == {pre \o BodyParas(k) : pre \in Prefixes, k \in 0..MaxParas}
PlainLayouts == {<<BodyLine>>, <<BlankLine, BodyLine>>, <<ClaimLine>>}

\* Every combination of cue words with the plain layouts, every layout with all
\* and with none of the cue words.
Documents ==
  {<<Line(SetToBag(c), n, {})>> \o lay :
      c \in SUBSET LeadCues, n \in LeadLens, lay \in PlainLayouts}
  \cup {<<Line(SetToBag(c), n, {})>> \o lay :
      c \in {LeadCues, {}}, n \in LeadLens, lay \in Layouts}

RECURSIVE AsText(_)
AsText(ls) == IF ls = <<>> THEN <<>> ELSE <<Whole(Head(ls))>> \o AsText(Tail(ls))

Environments ==
  [endpoint : {"process"}, llmMode : BOOLEAN, fileType : {"txt", "pdf"}]
  \cup [endpoint : {"reprocess"}, llmMode : BOOLEAN, fileType : {"txt"}]
  \cup [endpoint : {"fastapi"}, llmMode : {TRUE}, fileType : {"txt"}]

FieldChoices == {"absent", "empty", "text"}
ExtKop == ExtText(120)
ExtIntro == ExtText(210)
ExtBody == ExtText(1000)
ExtOf(label) == IF label \in {"KOP:", "kop"} THEN ExtKop
                ELSE IF label \in {"INTRO:", "intro"} THEN ExtIntro ELSE ExtBody

\* Replies to llm_rewrite: a transport error, or a content in which each label
\* is absent, stands before white space only, or stands before a text, the labels
\* in the order asked for or in the reverse order.
Seg(lab, choice) ==
  IF choice = "absent" THEN <<>>
  ELSE <<[lab |-> lab, txt |-> IF choice = "empty" THEN <<Blank, Blank>> ELSE ExtOf(lab)]>>

FlaskReplies ==
  {[kind |-> "neterror"]}
  \cup {[kind |-> "content", segs |-> Seg("KOP:", a) \o Seg("INTRO:", b) \o Seg("BODY:", c)] :
          a \in FieldChoices, b \in FieldChoices, c \in FieldChoices}
  \cup {[kind |-> "content", segs |-> Seg("BODY:", c) \o Seg("INTRO:", b) \o Seg("KOP:", a)] :
          a \in FieldChoices, b \in FieldChoices, c \in FieldChoices}

JsonData(a, b, c) ==
  [k \in {x \in Keys : (x = "kop" /\ a # "absent") \/ (x = "intro" /\ b # "absent")
                        \/ (x = "body" /\ c # "absent")} |->
     LET ch == IF k = "kop" THEN a ELSE IF k = "intro" THEN b ELSE c
     IN IF ch = "empty" THEN <<Blank, Blank>> ELSE ExtOf(k)]

FastapiReplies ==
  {[kind |-> "neterror"], [kind |-> "badjson"]}
  \cup {[kind |-> "json", data |-> JsonData(a, b, c)] :
          a \in FieldChoices, b \in FieldChoices, c \in FieldChoices}

-----------------------------------------------------------------------------
(* The handlers *)

Init ==
  \E doc \in Documents, env \in Environments :
    /\ endpoint = env.endpoint
    /\ fileType = env.fileType
    /\ llmMode = env.llmMode
    /\ raw = AsText(doc)
    /\ pc = "Validating"
    /\ cleaned = NoText
    /\ signals = <<>>
    /\ ok = "none"
    /\ draft = NoDraft
    /\ submitted = <<>>
    /\ attempt = "none"
    /\ structured = NoText
    /\ contact = NoText
    /\ outBody = NoOutput

Config == <<endpoint, fileType, llmMode, raw>>

\* The signals of a 400 response: ProcessResult(False, [Signal(code, ...)]) in
\* src/app.py, whatever warnings the handler has collected so far, and
\* _json_error(code, message, meta) in src/app/main.py.
ErrorSignals_Accumulated(acc, code) == acc \o <<code>>
ErrorSignals(acc, code) == <<code>>

Reject(code, text, acc) ==
  /\ pc' = "Rejected"
  /\ ok' = "false"
  /\ signals' = ErrorSignals(acc, code)
  /\ cleaned' = text
  /\ UNCHANGED <<Config, attempt, draft, submitted, structured, contact, outBody>>

DimWarning ==
  [Wie |-> "W011", Wat |-> "W012", Waar |-> "W013", Wanneer |-> "W014",
   Waarom |-> "W001", Hoe |-> "W002"]

RECURSIVE DimWarnings(_, _)
DimWarnings(w, i) ==
  IF i > Len(Dims) THEN <<>>
  ELSE (IF ~w[Dims[i]] THEN <<DimWarning[Dims[i]]>> ELSE <<>>) \o DimWarnings(w, i + 1)

\* src/app.py process, lines 229-262, and reprocess, lines 295-321.
FlaskValidate ==
  /\ pc = "Validating" /\ endpoint \in {"process", "reprocess"}
  /\ LET text == normalize_ws(raw)
         multi == multiple_press_release(text)
         w == find_5w(text)
         missing_five == {k \in GateDims : ~w[k]}
         tail == detect_contact_tail(text)
         early == (IF "W015" \in multi THEN <<"W015">> ELSE <<>>)
                  \o (IF strong_claims(text) THEN <<"W004">> ELSE <<>>)
                  \o (IF relative_time(text) THEN <<"W008">> ELSE <<>>)
     IN IF endpoint = "process" /\ fileType = "pdf" /\ TextLen(text) < PDF_MIN_CHARS
          THEN Reject("E003", text, <<>>)
        ELSE IF TextLen(text) < MIN_CHARS THEN Reject("E004", text, <<>>)
        ELSE IF "E007" \in multi THEN Reject("E007", text, <<>>)
        ELSE IF Cardinality(missing_five) >= 2 THEN Reject("E006", text, early)
        ELSE /\ pc' = "Drafting"
             /\ cleaned' = text
             /\ signals' = early \o DimWarnings(w, 1)
                           \o (IF tail # NoText THEN <<"W009">> ELSE <<>>)
             /\ contact' = tail
             /\ UNCHANGED <<Config, attempt, ok, draft, submitted, structured, outBody>>

\* src/app.py process, lines 264-268: the call of llm_rewrite.
FlaskCall ==
  /\ pc = "Drafting" /\ endpoint = "process" /\ llmMode
  /\ submitted' = Append(submitted, neutralize(cleaned))
  /\ pc' = "Calling"
  /\ UNCHANGED <<Config, attempt, cleaned, signals, ok, draft, structured, contact, outBody>>

FallbackDraft(src) == structure(src) @@ [source |-> "fallback"]

\* src/app.py process, lines 268-276: the reply, or the exception.
FlaskReturn_Retry ==
  /\ pc = "Calling" /\ endpoint = "process"
  /\ \E reply \in FlaskReplies :
       LET src == neutralize(cleaned)
           segs == IF reply.kind = "neterror" THEN <<>> ELSE reply.segs
           kop == parse_field(segs, "KOP:")
           intro == parse_field(segs, "INTRO:")
           body == parse_field(segs, "BODY:")
           failed == reply.kind = "neterror" \/ ~(kop # <<>> /\ intro # <<>> /\ body # <<>>)
       IN /\ attempt' = IF reply.kind = "neterror" THEN "neterror"
                      ELSE IF kop = <<>> \/ intro = <<>> \/ body = <<>> THEN "emptyfield"
                      ELSE "ok"
          /\ IF failed /\ Len(submitted) < 2
               THEN /\ signals' = signals
                    /\ draft' = draft
                    /\ structured' = structured
                    /\ pc' = "Drafting"
             ELSE IF failed
               THEN /\ signals' = Append(signals, "W010")
                    /\ draft' = FallbackDraft(src)
                    /\ structured' = src
                    /\ pc' = "FallbackDraft"
             ELSE /\ signals' = signals
                  /\ draft' = Fields(kop, intro, body) @@ [source |-> "external"]
                  /\ structured' = structured
                  /\ pc' = "ExternalDraft"
  /\ UNCHANGED <<Config, cleaned, ok, submitted, contact, outBody>>

FlaskReturn ==
  /\ pc = "Calling" /\ endpoint = "process"
  /\ \E reply \in FlaskReplies :
       LET src == neutralize(cleaned)
           segs == IF reply.kind = "neterror" THEN <<>> ELSE reply.segs
           kop == parse_field(segs, "KOP:")
           intro == parse_field(segs, "INTRO:")
           body == parse_field(segs, "BODY:")
       IN /\ attempt' = IF reply.kind = "neterror" THEN "neterror"
                      ELSE IF kop = <<>> \/ intro = <<>> \/ body = <<>> THEN "emptyfield"
                      ELSE "ok"
          /\ IF reply.kind = "neterror"
               THEN /\ signals' = Append(signals, "W010")
                    /\ draft' = FallbackDraft(src)
                    /\ structured' = src
                    /\ pc' = "FallbackDraft"
             ELSE IF ~(kop # <<>> /\ intro # <<>> /\ body # <<>>)
               THEN /\ signals' = signals
                    /\ draft' = FallbackDraft(src)
                    /\ structured' = src
                    /\ pc' = "FallbackDraft"
             ELSE /\ signals' = signals
                  /\ draft' = Fields(kop, intro, body) @@ [source |-> "external"]
                  /\ structured' = structured
                  /\ pc' = "ExternalDraft"
  /\ UNCHANGED <<Config, cleaned, ok, submitted, contact, outBody>>

\* src/app.py process, line 278 (LLM_MODE off), and reprocess, lines 323-324.
FlaskFallback ==
  /\ pc = "Drafting"
  /\ endpoint = "reprocess" \/ (endpoint = "process" /\ ~llmMode)
  /\ draft' = FallbackDraft(neutralize(cleaned))
  /\ structured' = neutralize(cleaned)
  /\ pc' = "FallbackDraft"
  /\ UNCHANGED <<Config, attempt, cleaned, signals, ok, submitted, contact, outBody>>

\* src/app.py process, lines 280-281.
FlaskLength ==
  /\ pc \in {"ExternalDraft", "FallbackDraft"} /\ endpoint = "process"
  /\ signals' = signals
                \o (IF TextLen(draft.kop) < KOP_MIN THEN <<"W005">> ELSE <<>>)
                \o (IF TextLen(draft.kop) > KOP_MAX THEN <<"W006">> ELSE <<>>)
  /\ pc' = "LengthChecked"
  /\ UNCHANGED <<Config, attempt, cleaned, ok, draft, submitted, structured, contact, outBody>>

\* src/app.py process, lines 283-285, and reprocess, lines 325-327: the body of the
\* output is the draft's body followed by the contact block.
FlaskFinish ==
  /\ \/ pc = "LengthChecked" /\ endpoint = "process"
     \/ pc = "FallbackDraft" /\ endpoint = "reprocess"
  /\ outBody' = [made |-> TRUE, body |-> draft.body, block |-> Strip(contact)]
  /\ ok' = "true"
  /\ pc' = "Done"
  /\ UNCHANGED <<Config, attempt, cleaned, signals, draft, submitted, structured, contact>>

\* src/app/main.py process, lines 71-78: normalize and validate.
FastapiValidate ==
  /\ pc = "Validating" /\ endpoint = "fastapi"
  /\ LET norm == normalize_whitespace(raw)
         vres == validate_input(norm)
     IN IF ~vres.ok THEN Reject(vres.error_code, norm, vres.warnings)
        ELSE /\ pc' = "Drafting"
             /\ cleaned' = norm
             /\ signals' = vres.warnings
             /\ UNCHANGED <<Config, attempt, ok, draft, submitted, structured, contact, outBody>>

\* src/app/main.py process, lines 81-87: the call of rewrite_with_llm.
FastapiCall ==
  /\ pc = "Drafting" /\ endpoint = "fastapi"
  /\ submitted' = Append(submitted, cleaned)
  /\ pc' = "Calling"
  /\ UNCHANGED <<Config, attempt, cleaned, signals, ok, draft, structured, contact, outBody>>

\* src/app/main.py process, lines 87-93: the result, or the exception.
FastapiReturn ==
  /\ pc = "Calling" /\ endpoint = "fastapi"
  /\ \E reply \in FastapiReplies :
       LET res == rewrite_with_llm(reply) IN
       /\ attempt' = IF reply.kind = "neterror" THEN "neterror"
                   ELSE IF res.raised THEN "unparsable"
                   ELSE IF res.kop = <<>> \/ res.intro = <<>> \/ res.body = <<>>
                     THEN "emptyfield"
                   ELSE "ok"
       /\ IF res.raised
            THEN /\ draft' = naive_rewrite(cleaned) @@ [source |-> "fallback"]
                 /\ structured' = cleaned
                 /\ pc' = "FallbackDraft"
          ELSE /\ draft' = Fields(res.kop, res.intro, res.body) @@ [source |-> "external"]
               /\ structured' = structured
               /\ pc' = "ExternalDraft"
  /\ UNCHANGED <<Config, cleaned, signals, ok, submitted, contact, outBody>>

\* src/app/main.py process, line 95.
FastapiLength ==
  /\ pc \in {"ExternalDraft", "FallbackDraft"} /\ endpoint = "fastapi"
  /\ signals' = signals \o enforce_length_warnings(draft.kop, draft.intro, draft.body,
                                                   TextLen(cleaned))
  /\ pc' = "LengthChecked"
  /\ UNCHANGED <<Config, attempt, cleaned, ok, draft, submitted, structured, contact, outBody>>

\* src/app/main.py process, lines 97-118: the output.
FastapiFinish ==
  /\ pc = "LengthChecked" /\ endpoint = "fastapi"
  /\ outBody' = [made |-> TRUE, body |-> draft.body, block |-> NoText]
  /\ ok' = "true"
  /\ pc' = "Done"
  /\ UNCHANGED <<Config, attempt, cleaned, signals, draft, submitted, structured, contact>>

Next ==
  \/ FlaskValidate
  \/ FlaskCall
  \/ FlaskReturn
  \/ FlaskFallback
  \/ FlaskLength
  \/ FlaskFinish
  \/ FastapiValidate
  \/ FastapiCall
  \/ FastapiReturn
  \/ FastapiLength
  \/ FastapiFinish

Spec == Init /\ [][Next]_vars

\* The positions of a handler, and the step by which a handler that has not
\* returned moves on.
Positions == {"Validating", "Rejected", "Drafting", "Calling", "ExternalDraft",
              "FallbackDraft", "LengthChecked", "Done"}
Advance == pc \notin {"Rejected", "Done"} /\ pc' \in Positions /\ pc' # pc

\* The handlers are sequential code that runs to its return: no step waits for
\* anything but the reply of the rewriter, and llm_rewrite and call_openai_chat
\* return or raise within their timeout of 60 s.  Every step of Next changes pc,
\* and Next is enabled in every reachable state that is not terminal (TLC finds
\* no deadlock in NoDeadlockSpec), so this is weak fairness of Next.
FairSpec == Spec /\ WF_pc(Advance)

Returned == pc \in {"Rejected", "Done"} /\ UNCHANGED vars
NoDeadlockSpec == Init /\ [][Next \/ Returned]_vars

-----------------------------------------------------------------------------
(* multiple_press_release of src/app.py applied to normalized documents *)

MaxLines == 5

DatedBodyLine == Line(SetToBag({"Heerlen, 6 februari 2026 -"}), 900, {80, 900})
MultiLines == {BlankLine, SeparatorLine, DatedBodyLine, DatelineLine, ContactLine, ShortLine}

RECURSIVE SeqsOf(_, _)
SeqsOf(S, k) ==
  IF k = 0 THEN {<<>>} ELSE {<<x>> \o t : x \in S, t \in SeqsOf(S, k - 1)}

MultiDocuments(n) == UNION {SeqsOf(MultiLines, k) : k \in 1..n}

InitMulti ==
  \E doc \in MultiDocuments(MaxLines) :
    /\ endpoint = "multiple_press_release"
    /\ fileType = "txt"
    /\ llmMode = FALSE
    /\ raw = AsText(doc)
    /\ pc = "Validating"
    /\ cleaned = NoText
    /\ signals = <<>>
    /\ ok = "none"
    /\ draft = NoDraft
    /\ submitted = <<>>
    /\ attempt = "none"
    /\ structured = NoText
    /\ contact = NoText
    /\ outBody = NoOutput

\* src/app.py lines 229 and 237: cleaned = normalize_ws(raw);
\* e007, w015 = multiple_press_release(cleaned)
MultiApply ==
  /\ pc = "Validating" /\ endpoint = "multiple_press_release"
  /\ cleaned' = normalize_ws(raw)
  /\ signals' = LET r == multiple_press_release(normalize_ws(raw))
                IN (IF "E007" \in r THEN <<"E007">> ELSE <<>>)
                   \o (IF "W015" \in r THEN <<"W015">> ELSE <<>>)
  /\ pc' = "Returned"
  /\ UNCHANGED <<Config, attempt, ok, draft, submitted, structured, contact, outBody>>

NextMulti == MultiApply

SpecMulti == InitMulti /\ [][NextMulti]_vars

-----------------------------------------------------------------------------
(* The fallback structurers, structure of src/app.py and naive_rewrite of     *)
(* src/app/processing.py, applied to texts of a few lines                     *)

MaxTextLines == 4

HeadLine == Line(EmptyBag, 90, {})
LongLine == Line(EmptyBag, 200, {10})
MidLine == Line(EmptyBag, 400, {80})
WideLine == Line(EmptyBag, 700, {})
TextLines == {BlankLine, HeadLine, LongLine, MidLine, WideLine}

Texts(n) == UNION {SeqsOf(TextLines, k) : k \in 1..n}

InitStructure ==
  \E doc \in Texts(MaxTextLines), f \in {"structure", "naive_rewrite"} :
    /\ endpoint = f
    /\ fileType = "txt"
    /\ llmMode = FALSE
    /\ raw = AsText(doc)
    /\ pc = "Validating"
    /\ cleaned = NoText
    /\ signals = <<>>
    /\ ok = "none"
    /\ draft = NoDraft
    /\ submitted = <<>>
    /\ attempt = "none"
    /\ structured = NoText
    /\ contact = NoText
    /\ outBody = NoOutput

\* src/app.py line 278: kop,intro,body = structure(src)
StructureApply ==
  /\ pc = "Validating" /\ endpoint = "structure"
  /\ draft' = FallbackDraft(raw)
  /\ structured' = raw
  /\ pc' = "Returned"
  /\ UNCHANGED <<Config, attempt, cleaned, signals, ok, submitted, contact, outBody>>

\* src/app/main.py line 93: kop, intro, body = naive_rewrite(norm)
NaiveApply ==
  /\ pc = "Validating" /\ endpoint = "naive_rewrite"
  /\ draft' = naive_rewrite(raw) @@ [source |-> "fallback"]
  /\ structured' = raw
  /\ pc' = "Returned"
  /\ UNCHANGED <<Config, attempt, cleaned, signals, ok, submitted, contact, outBody>>

NextStructure == StructureApply \/ NaiveApply

SpecStructure == InitStructure /\ [][NextStructure]_vars

-----------------------------------------------------------------------------
(* The normalizers, normalize_ws of src/app.py and normalize_whitespace of    *)
(* src/app/processing.py, on strings: a string is a sequence of characters    *)

MaxChars == 5

Alphabet == {"a", " ", "\t", "\n", "\r", "\f"}
WhiteSpace == {" ", "\t", "\n", "\r", "\f"}

Strings(n) == UNION {SeqsOf(Alphabet, k) : k \in 0..n}

\* s.replace("\r\n", "\n").replace("\r", "\n")
RECURSIVE ReplaceCR(_)
ReplaceCR(s) ==
  IF s = <<>> THEN <<>>
  ELSE IF Len(s) >= 2 /\ s[1] = "\r" /\ s[2] = "\n"
       THEN <<"\n">> \o ReplaceCR(SubSeq(s, 3, Len(s)))
  ELSE <<IF s[1] = "\r" THEN "\n" ELSE s[1]>> \o ReplaceCR(Tail(s))

\* str.lstrip(), str.rstrip() and str.strip()
RECURSIVE LStripStr(_)
LStripStr(s) ==
  IF s # <<>> /\ s[1] \in WhiteSpace THEN LStripStr(Tail(s)) ELSE s

RECURSIVE RStripStr(_)
RStripStr(s) ==
  IF s # <<>> /\ s[Len(s)] \in WhiteSpace THEN RStripStr(SubSeq(s, 1, Len(s) - 1)) ELSE s

StripStr(s) == RStripStr(LStripStr(s))

\* s.split("\n"): cur is the line read so far.
RECURSIVE SplitLF(_, _)
SplitLF(s, cur) ==
  IF s = <<>> THEN <<cur>>
  ELSE IF s[1] = "\n" THEN <<cur>> \o SplitLF(Tail(s), <<>>)
  ELSE SplitLF(Tail(s), Append(cur, s[1]))

\* "\n".join([ln.rstrip() for ln in lines])
RECURSIVE JoinRStripped(_)
JoinRStripped(lines) ==
  IF Len(lines) = 1 THEN RStripStr(lines[1])
  ELSE RStripStr(lines[1]) \o <<"\n">> \o JoinRStripped(Tail(lines))

\* The length of the run of characters of C at the start of s.
RECURSIVE RunLen(_, _)
RunLen(s, C) == IF s # <<>> /\ s[1] \in C THEN 1 + RunLen(Tail(s), C) ELSE 0

\* re.sub(r"\n{3,}", "\n\n", s)
RECURSIVE CollapseLF(_)
CollapseLF(s) ==
  IF s = <<>> THEN <<>>
  ELSE LET k == RunLen(s, {"\n"}) IN
       IF k >= 3 THEN <<"\n", "\n">> \o CollapseLF(SubSeq(s, k + 1, Len(s)))
       ELSE <<s[1]>> \o CollapseLF(Tail(s))

\* The same with the pattern [ \t]{2}, which replaces two characters at a time.
RECURSIVE CollapseSpaces_Pairs(_)
CollapseSpaces_Pairs(s) ==
  IF s = <<>> THEN <<>>
  ELSE LET k == RunLen(s, {" ", "\t"}) IN
       IF k >= 2 THEN <<" ">> \o CollapseSpaces_Pairs(SubSeq(s, 3, Len(s)))
       ELSE <<s[1]>> \o CollapseSpaces_Pairs(Tail(s))

\* re.sub(r"[ \t]{2,}", " ", text)
RECURSIVE CollapseSpaces(_)
CollapseSpaces(s) ==
  IF s = <<>> THEN <<>>
  ELSE LET k == RunLen(s, {" ", "\t"}) IN
       IF k >= 2 THEN <<" ">> \o CollapseSpaces(SubSeq(s, k + 1, Len(s)))
       ELSE <<s[1]>> \o CollapseSpaces(Tail(s))

normalize_ws_str(s) ==
  StripStr(CollapseLF(JoinRStripped(SplitLF(ReplaceCR(s), <<>>))))

normalize_whitespace_str(text) ==
  StripStr(CollapseSpaces(CollapseLF(ReplaceCR(text))))

InitNormalize ==
  \E x \in Strings(MaxChars), f \in {"normalize_ws", "normalize_whitespace"} :
    /\ endpoint = f
    /\ fileType = "txt"
    /\ llmMode = FALSE
    /\ raw = x
    /\ pc = "Validating"
    /\ cleaned = NoText
    /\ signals = <<>>
    /\ ok = "none"
    /\ draft = NoDraft
    /\ submitted = <<>>
    /\ attempt = "none"
    /\ structured = NoText
    /\ contact = NoText
    /\ outBody = NoOutput

\* src/app.py line 229, cleaned = normalize_ws(raw), and line 295, where
\* reprocess applies normalize_ws to the text that process returned.
NormalizeWsApply ==
  /\ endpoint = "normalize_ws" /\ pc \in {"Validating", "Normalized"}
  /\ cleaned' = normalize_ws_str(IF pc = "Validating" THEN raw ELSE cleaned)
  /\ pc' = IF pc = "Validating" THEN "Normalized" ELSE "Renormalized"
  /\ UNCHANGED <<Config, attempt, signals, ok, draft, submitted, structured, contact,
                 outBody>>

\* src/app/main.py line 71: norm = normalize_whitespace(raw_text), and
\* src/app/processing.py line 80, where validate_input applies it to norm again.
NormalizeWhitespaceApply ==
  /\ endpoint = "normalize_whitespace" /\ pc \in {"Validating", "Normalized"}
  /\ cleaned' = normalize_whitespace_str(IF pc = "Validating" THEN raw ELSE cleaned)
  /\ pc' = IF pc = "Validating" THEN "Normalized" ELSE "Renormalized"
  /\ UNCHANGED <<Config, attempt, signals, ok, draft, submitted, structured, contact,
                 outBody>>

NextNormalize == NormalizeWsApply \/ NormalizeWhitespaceApply

SpecNormalize == InitNormalize /\ [][NextNormalize]_vars

-----------------------------------------------------------------------------
(* Properties of the validation stages *)

ErrorCodes == {"E003", "E004", "E006", "E007"}

Flask == endpoint \in {"process", "reprocess"}

\* The five gate dimensions and the six dimensions, as the detector of the
\* running implementation sees them in the normalized text.
Present(t) ==
  IF Flask THEN find_5w(t)
  ELSE LET ws == five_w_check(t)
       IN [Wie |-> ws.wie, Wat |-> ws.wat, Waar |-> ws.waar, Wanneer |-> ws.wanneer,
           Waarom |-> ws.waarom, Hoe |-> ws.hoe]

GateMissing(t) == {k \in GateDims : ~Present(t)[k]}

\* The multi-document check of the running implementation is fatal on t.
MultiFatal(t) ==
  IF Flask THEN "E007" \in multiple_press_release(t)
  ELSE detect_multiple_press_releases(t)

Rejected == pc = "Rejected"
Accepted == pc = "Done"
Validated == pc \notin {"Validating", "Rejected"}

InSignals(code) == \E i \in 1..Len(signals) : signals[i] = code

\* C1: a rejected run has ok = false, exactly one signal, which is an error code
\* (no warning collected before the fatal check survives), no draft and no output;
\* the gate's E006 is reported only when the multi-document check was not fatal,
\* so a document of sufficient length that is fatal for the multi-document check
\* and fails the 5W gate is reported as E007.
C1_RejectionIsSingleFatal ==
  Rejected =>
    /\ ok = "false"
    /\ Len(signals) = 1
    /\ signals[1] \in ErrorCodes
    /\ draft = NoDraft
    /\ outBody = NoOutput
    /\ structured = NoText
    /\ (MultiFatal(cleaned) /\ Cardinality(GateMissing(cleaned)) >= 2)
          => /\ signals # <<"E006">>
             /\ TextLen(cleaned) >= MIN_CHARS => signals = <<"E007">>

\* A rejected upload whose second section is a press release and whose text
\* lacks two or more of the gate dimensions.
C1_Witness ==
  /\ Rejected /\ endpoint = "process"
  /\ signals = <<"E007">>
  /\ MultiFatal(cleaned)
  /\ Cardinality(GateMissing(cleaned)) >= 2

\* C2: of the runs that reach the 5W gate, exactly those with two or more of
\* Who, What, Where, When, Why absent are rejected with E006; How is not counted.
C2_GateCountsFiveDimensions ==
  (pc # "Validating" /\ ~(Rejected /\ signals[1] \in {"E003", "E004", "E007"}))
    => ((Rejected /\ signals = <<"E006">>) <=> Cardinality(GateMissing(cleaned)) >= 2)

\* C3: in an accepted outcome each dimension's warning is in the signals exactly
\* when that dimension is absent.
C3_EveryAbsentDimensionWarned ==
  Accepted => \A k \in DOMAIN DimWarning : InSignals(DimWarning[k]) <=> ~Present(cleaned)[k]

\* The codes of the pair that multiple_press_release returns, in the order in
\* which process reads them.
MultiCodes(r) ==
  (IF "E007" \in r THEN <<"E007">> ELSE <<>>) \o (IF "W015" \in r THEN <<"W015">> ELSE <<>>)

\* A document of two sections: a one-line first section without any cue, a
\* separator, and second as the second section.
TwoSectionDocument(second) == <<Whole(ShortLine), Whole(SeparatorLine)>> \o second

\* C4: when the document has two or more sections the result follows from the
\* score and the length of the second section alone: E007 for a score of 4 or more
\* on 900 characters or more, W015 for a score of 2 or 3, nothing for a score of 0
\* or 1, never both codes; and the result is the one that the second section gets
\* behind any other first section and without the later sections.
C4_SecondSectionDecides ==
  (pc = "Returned" /\ Len(split_sections(cleaned)) >= 2) =>
    LET second == split_sections(cleaned)[2]
        score == score_second(second)
    IN /\ Len(signals) <= 1
       /\ (score >= 4 /\ TextLen(second) >= SECOND_MIN_CHARS) => signals = <<"E007">>
       /\ score \in {2, 3} => signals = <<"W015">>
       /\ score <= 1 => signals = <<>>
       /\ signals = MultiCodes(multiple_press_release(TwoSectionDocument(second)))

\* A document of three sections whose second section is a press release and whose
\* first and third sections are not.
C4_Witness ==
  /\ pc = "Returned"
  /\ Len(split_sections(cleaned)) >= 3
  /\ signals = <<"E007">>
  /\ score_second(split_sections(cleaned)[1]) <= 1
  /\ score_second(split_sections(cleaned)[3]) <= 1

\* No line of the text is a separator marker.
NoSeparator(t) == \A i \in 1..Len(t) : ~MatchCI(<<t[i]>>, SeparatorMarks)

\* C5: a document without a separator marker gets neither E007 nor W015.
C5_NoSeparatorNoMultiSignal ==
  (pc # "Validating" /\ NoSeparator(cleaned)) => ~InSignals("E007") /\ ~InSignals("W015")

-----------------------------------------------------------------------------
(* Properties of the drafting stages *)

Failed == attempt \in {"neterror", "unparsable", "emptyfield"}
Drafted == draft # NoDraft
FieldsNonEmpty(d) == TextLen(d.kop) >= 1 /\ TextLen(d.intro) >= 1 /\ TextLen(d.body) >= 1

\* C6: the draft of an accepted run has a non-empty headline, intro and body; an
\* external draft with an empty field is replaced by the fallback draft.
C6_DraftFieldsNonEmpty ==
  Accepted => /\ FieldsNonEmpty(draft)
              /\ attempt = "emptyfield" => draft.source = "fallback"

\* C7: once validation has passed the run is never rejected; a failed external
\* attempt (transport error, unparsable reply, empty field) gives the fallback
\* draft with W010; without an external attempt the draft is the fallback draft
\* without W010; a successful attempt leaves no W010; a finished run is accepted.
C7_FallbackWarnsOnlyAfterFailure ==
  Drafted =>
    /\ ~Rejected
    /\ Failed => (draft.source = "fallback" /\ InSignals("W010"))
    /\ attempt = "none" => (draft.source = "fallback" /\ ~InSignals("W010"))
    /\ attempt = "ok" => ~InSignals("W010")
    /\ Accepted => ok = "true"

Terminal == pc \in {"Rejected", "Done"}

\* C8: at most one text is ever submitted to the external rewriter and none for a
\* rejected document; the step in which the call fails (a transport error or a
\* reply that cannot be parsed) goes to the fallback draft, and no reply leads
\* back to a call; a terminal state is never left, and every run reaches one.
C8_SingleCallAndTermination ==
  /\ [](Len(submitted) <= 1)
  /\ [](Rejected => submitted = <<>>)
  /\ [][(pc = "Calling" /\ attempt' \in {"neterror", "unparsable"})
          => (pc' = "FallbackDraft" /\ draft'.source = "fallback")]_vars
  /\ [][pc = "Calling" => pc' \in {"FallbackDraft", "ExternalDraft"}]_vars
  /\ [][Terminal => UNCHANGED pc]_vars
  /\ <>[]Terminal

\* A finished run whose one call of the rewriter met a transport error.
C8_Witness ==
  /\ Accepted /\ endpoint = "process"
  /\ Len(submitted) = 1
  /\ attempt = "neterror"
  /\ draft.source = "fallback"

\* C9: the text submitted to the external rewriter is the normalized text, not
\* the neutralized one, and every fallback draft is structured from the
\* neutralized text.
C9_NeutralizeOnlyOnFallback ==
  /\ \A i \in 1..Len(submitted) : submitted[i] = cleaned
  /\ (Drafted /\ draft.source = "fallback") => structured = neutralize(cleaned)

\* The text holds a cue by which detect_contact_tail recognises contact details.
HoldsContact(t) == MatchCI(t, ContactWords)

\* C10: with a contact tail detected by the Flask handlers, W009 is signalled, no
\* text submitted to the rewriter holds the contact details, and the output
\* of an accepted run ends with the block made of the tail while the body before
\* the block does not hold the contact details.
C10_ContactOnlyInBlock ==
  (Flask /\ Validated /\ contact # NoText) =>
    /\ InSignals("W009")
    /\ \A i \in 1..Len(submitted) : ~HoldsContact(submitted[i])
    /\ Accepted => (outBody.block = Strip(contact) /\ ~HoldsContact(outBody.body))

-----------------------------------------------------------------------------
(* Properties of the signal list and of the length checks *)

\* The place of a code in the order of the signal list; 0 for a code that the
\* order does not name.
SignalOrder == <<"W015", "W004", "W008", "W011", "W012", "W013", "W014", "W001", "W002",
                 "W009", "W005", "W006", "W007">>
Place(code) ==
  IF \E k \in 1..Len(SignalOrder) : SignalOrder[k] = code
  THEN CHOOSE k \in 1..Len(SignalOrder) : SignalOrder[k] = code
  ELSE 0

\* C11: in the signal list of an accepted outcome the codes stand in the order
\* W015, W004, W008, W011, W012, W013, W014, W001, W002, W009, W005, W006, W007:
\* no code stands before a code that precedes it in that order.
C11_SignalsInFixedOrder ==
  Accepted =>
    \A i, j \in 1..Len(signals) :
      (i < j /\ Place(signals[i]) # 0 /\ Place(signals[j]) # 0)
        => Place(signals[i]) <= Place(signals[j])

Count(code) == Cardinality({i \in 1..Len(signals) : signals[i] = code})

\* The band of the total length for a source of the given length, and its soft
\* ceiling of 1.10 times the upper end.
BandOf(source_len) ==
  IF source_len < 2500 THEN [lo |-> 950, hi |-> 1150] ELSE [lo |-> 1750, hi |-> 1950]
Ceiling(band) == (band.hi * 11) \div 10

\* C12: an accepted outcome has W007 exactly when the length of intro plus
\* body is below the lower end of the band of its source or above the soft
\* ceiling of that band, and has it at most once.
C12_TotalLengthBand ==
  Accepted =>
    LET total == TextLen(draft.intro) + TextLen(draft.body)
        band == BandOf(TextLen(cleaned))
    IN /\ InSignals("W007") <=> (total < band.lo \/ total > Ceiling(band))
       /\ Count("W007") <= 1

\* C13: an accepted outcome, also of reprocess, has W005 exactly when the
\* headline is shorter than 100 characters and W006 exactly when the headline is
\* longer than 150 characters.
C13_HeadlineLengthWarnings ==
  Accepted =>
    /\ InSignals("W005") <=> TextLen(draft.kop) < 100
    /\ InSignals("W006") <=> TextLen(draft.kop) > 150

\* The text has a character that is not white space.
NonWhite(t) == \E i \in 1..Len(t) : ~IsBlank(t[i])

\* C14: for a text that is not only white space both fallback structurers return
\* a headline of at most 150 characters and a non-empty body.
C14_FallbackHeadlineAndBody ==
  (pc = "Returned" /\ NonWhite(raw)) =>
    /\ TextLen(draft.kop) <= 150
    /\ TextLen(draft.body) >= 1

\* C17: when structure gets a text of two or more paragraphs, the first
\* paragraph starts with the headline, which is the first non-blank line cut to
\* 150 characters, and the intro is the start of the second paragraph; with
\* exactly two paragraphs the body is the second paragraph, so that nothing of
\* the first paragraph is in intro or body.
C17_IntroFromSecondParagraph ==
  (pc = "Returned" /\ endpoint = "structure" /\ Len(Paragraphs(raw)) >= 2) =>
    LET paras == Paragraphs(raw) IN
    /\ draft.kop = TakeChars(<<FirstNonBlank(raw)>>, 150)
    /\ StartsWith(paras[1], draft.kop)
    /\ draft.intro = Strip(TakeChars(paras[2], 650))
    /\ Len(paras) = 2 => draft.body = paras[2]

\* A text of two paragraphs whose first paragraph goes on after the headline
\* and whose second paragraph is longer than the intro.
C17_Witness ==
  /\ pc = "Returned" /\ endpoint = "structure"
  /\ Len(Paragraphs(raw)) = 2
  /\ TextLen(Paragraphs(raw)[1]) > TextLen(draft.kop)
  /\ TextLen(draft.body) > TextLen(draft.intro)
  /\ draft.body = Paragraphs(raw)[2]

\* C15: both normalizers are idempotent: applied to a normalized string they
\* return it unchanged.
C15_NormalizerIdempotent ==
  [][pc = "Normalized" => (pc' = "Renormalized" /\ cleaned' = cleaned)]_vars

\* A string that normalization changed without emptying it, normalized twice.
C15_Witness ==
  /\ pc = "Renormalized"
  /\ cleaned # raw
  /\ cleaned # <<>>
  /\ \E i \in 1..Len(cleaned) : cleaned[i] = "\n"

\* The lines of a string, and the lines that hold white space only.
LinesOf(s) == SplitLF(s, <<>>)
BlankStr(l) == \A i \in 1..Len(l) : l[i] \in WhiteSpace

\* C16: a normalized string holds no carriage return, no line that ends in
\* white space, no two consecutive blank lines, and no white space at its start
\* or end.
C16_NormalizedShape ==
  pc \in {"Normalized", "Renormalized"} =>
    LET lines == LinesOf(cleaned) IN
    /\ \A i \in 1..Len(cleaned) : cleaned[i] # "\r"
    /\ \A k \in 1..Len(lines) : lines[k] = <<>> \/ lines[k][Len(lines[k])] \notin WhiteSpace
    /\ \A k \in 1..(Len(lines) - 1) : ~(BlankStr(lines[k]) /\ BlankStr(lines[k + 1]))
    /\ cleaned = <<>> \/ (cleaned[1] \notin WhiteSpace /\ cleaned[Len(cleaned)] \notin WhiteSpace)

\* A second section of one short line with a contact cue: it scores 2.
LowerScoreDocument == TwoSectionDocument(<<Whole(ContactLine)>>)

\* C18: a second section that scores 4 or more and is shorter than 900 characters
\* yields no signal, neither E007 nor W015, although a second section that scores
\* less, 2 or 3, yields W015.
C18_HighScoreShortSectionSilent ==
  (pc = "Returned" /\ Len(split_sections(cleaned)) >= 2) =>
    LET second == split_sections(cleaned)[2] IN
    (score_second(second) >= 4 /\ TextLen(second) < SECOND_MIN_CHARS) =>
      /\ signals = <<>>
      /\ multiple_press_release(cleaned) = {}
      /\ score_second(split_sections(LowerScoreDocument)[2]) < score_second(second)
      /\ multiple_press_release(LowerScoreDocument) = {"W015"}

\* A second section with a dateline, a short first line and a contact cue,
\* shorter than 900 characters, for which nothing is reported.
C18_Witness ==
  /\ pc = "Returned"
  /\ Len(split_sections(cleaned)) >= 2
  /\ score_second(split_sections(cleaned)[2]) >= 4
  /\ TextLen(split_sections(cleaned)[2]) < SECOND_MIN_CHARS
  /\ signals = <<>>
  /\ score_second(split_sections(LowerScoreDocument)[2]) \in {2, 3}

=============================================================================
